---------------------------- MODULE Spec2Model ----------------------------
(***************************************************************************)
(* A model of the Nginx log analyzer.                                      *)
(*                                                                         *)
(* The repository holds two programs built from the same functions:        *)
(*   "monolith"  src/log_analyzer.py (main and every function in one file) *)
(*   "package"   src/log_analyzer/__main__.py, core.py and writer.py       *)
(* Both are modelled; the variable impl says which one a behaviour runs.   *)
(*                                                                         *)
(* Interpreter: CPython 3.7 .. 3.11 (dict keeps insertion order, a str     *)
(* pattern cannot be applied to bytes, UnicodeDecodeError is a subclass of *)
(* ValueError).                                                            *)
(*                                                                         *)
(* Abstractions:                                                           *)
(*   - a directory entry is a record [stem, token, ext] standing for the   *)
(*     name "nginx-access-" stem ".log-" token "." ext, token being an     *)
(*     8-digit number;                                                     *)
(*   - a duration is a whole number of time units and sums are exact;      *)
(*     a quotient is kept as an unreduced fraction [num, den];             *)
(*   - the file's content is an input read line by line: the lines read    *)
(*     so far by the running pass are kept in consumed, the lines any pass *)
(*     has met in disk, so that a second pass reads the same file.         *)
(***************************************************************************)
EXTENDS Integers, Sequences, FiniteSets, TLC

VARIABLES
    impl,            \* "monolith" or "package"
    caller,          \* who runs: "none", "locate" (a direct call of
                     \* find_most_recent_log), "stats" (a direct call of
                     \* get_request_stats) or "main"
    pc,              \* the position of the running call
    listing,         \* os.listdir(directory), in the order it enumerates
    dir_ok,          \* os.path.isdir(directory)
    most_recent_log, \* what find_most_recent_log gave its caller
    log,             \* the LogFile handed to get_request_stats
    count,           \* get_request_stats' count (top_k)
    allowed,         \* allowed_invalid_part, a fraction [num, den]
    consumed,        \* the lines of the log file read so far
    f_open,          \* the file object of _iterate_over_requests is open
    count_valid,     \* _aggregate_stats_by_url's accumulators
    count_invalid,
    time_valid,
    times,           \* the dict url -> list of times, as a sequence of
                     \* [url, ts] in insertion order
    stats,           \* get_request_stats' list stats, sorted, before [:count]
    outcome,         \* what get_request_stats gave its caller
    reports,         \* the dates whose report file exists in report_dir
    exit_path,       \* how main ended: the diagnostic it logged
    run,             \* the number of the call or of the program run, from 1,
                     \* in a sequence on the same unchanged files
    disk,            \* the log file as stored: its lines as far as a pass
                     \* has met them, whether its end was met, whether it
                     \* opens
    prev_outcome,    \* what the previous call of get_request_stats gave
    reports_before,  \* reports as this run of main found them
    writes,          \* the calls of the writer so far, one record each
    stats_runs,      \* the runs in which main called get_request_stats
    median_in,       \* the argument of a direct call of _median
    median_out       \* what that call gave

vars == <<impl, caller, pc, listing, dir_ok, most_recent_log, log, count,
          allowed, consumed, f_open, count_valid, count_invalid, time_valid,
          times, stats, outcome, reports, exit_path, run, disk,
          prev_outcome, reports_before, writes, stats_runs, median_in,
          median_out>>

(***************************************************************************)
(* Bounds of the model.                                                    *)
(***************************************************************************)
MaxFiles == 3        \* entries of a directory given to find_most_recent_log
MaxLines == 3        \* lines of a log file given to get_request_stats
MaxTopK == 2         \* greatest count (top_k)
MaxMainFiles == 1    \* entries of main's log directory
MaxMainLines == 2    \* lines of the log file main analyzes
MaxRuns == 2         \* calls, or runs of main, on the same unchanged files
MaxRerunLines == 2   \* lines of a log file get_request_stats is called on twice
MaxMainRerunLines == 1   \* lines of a log file main is run on twice
MaxMedianLen == 3    \* length of a list given to _median directly

(***************************************************************************)
(* Directory entries.                                                      *)
(***************************************************************************)
FileName(stem, token, ext) == [stem |-> stem, token |-> token, ext |-> ext]

\* The entries a directory may hold: the same date as .gz and as .log, an
\* older log, June 31st and month 13 (no calendar dates, both greater than
\* every valid token), another prefix and another extension.
FileNames ==
    { FileName("ui", 20190630, "gz"),
      FileName("ui", 20190630, "log"),
      FileName("ui", 20190101, "log"),
      FileName("ui", 20190631, "gz"),
      FileName("ui", 20191301, "log"),
      FileName("XX", 20191212, "gz"),
      FileName("ui", 20190702, "bz") }

\* LOG_FILENAME_PATTERN: ^nginx-access-ui\.log-(\d{8})\.(gz|log)$
MatchesFilenamePattern(fn) == fn.stem = "ui" /\ fn.ext \in {"gz", "log"}

IsLeapYear(y) == (y % 4 = 0 /\ y % 100 # 0) \/ y % 400 = 0

DaysInMonth(y, m) ==
    IF m = 2 THEN (IF IsLeapYear(y) THEN 29 ELSE 28)
    ELSE IF m \in {4, 6, 9, 11} THEN 30 ELSE 31

\* dt.datetime.strptime(raw_date, "%Y%m%d") returns a date, and raises
\* ValueError when the 8 digits are no calendar date.
StrptimeOk(token) ==
    LET y == token \div 10000
        m == (token \div 100) % 100
        d == token % 100
    IN  /\ y >= 1
        /\ m >= 1 /\ m <= 12
        /\ d >= 1 /\ d <= DaysInMonth(y, m)

\* Python's order of two names that match the pattern: the names differ
\* first in the 8 digits, then in the extension, and "gz" < "log".
ExtRank(ext) == IF ext = "gz" THEN 0 ELSE 1

StrLess(a, b) ==
    \/ a.token < b.token
    \/ a.token = b.token /\ ExtRank(a.ext) < ExtRank(b.ext)

(***************************************************************************)
(* Results of a call.                                                      *)
(***************************************************************************)
Unset == [kind |-> "unset"]
None == [kind |-> "none"]
Fault(exc, msg) == [kind |-> "fault", exc |-> exc, msg |-> msg]
LogFile(fn) == [kind |-> "log", name |-> fn, date |-> fn.token,
                extension |-> fn.ext]

MsgNotDir == "not a directory"
MsgNoLogs == "There are no valid logs."
MsgStrptime == "time data does not match format"
MsgExtension == "Invalid extension of the log-file."
MsgTooMany == "Too many invalid rows in the log-file."
MsgOpen == "cannot open"
MsgDecode == "invalid start byte"
MsgBytes == "cannot use a string pattern on a bytes-like object"
MsgZero == "float division by zero"
MsgEmpty == "List is empty"

\* isinstance(exception, ValueError): what "except ValueError" catches.
IsValueError(exc) == exc \in {"ValueError", "UnicodeDecodeError"}

(***************************************************************************)
(* find_most_recent_log of src/log_analyzer.py.                            *)
(***************************************************************************)
\* One round of the loop over os.listdir: acc is the filename kept so far
\* (None before the first valid one).
ScanStep(acc, filename) ==
    IF ~MatchesFilenamePattern(filename) THEN acc
    ELSE IF ~StrptimeOk(filename.token) THEN acc
    ELSE IF acc = None \/ filename.token > acc.date THEN LogFile(filename)
    ELSE acc

RECURSIVE ScanListing(_, _)
ScanListing(acc, filenames) ==
    IF filenames = <<>> THEN acc
    ELSE ScanListing(ScanStep(acc, Head(filenames)), Tail(filenames))

MonolithFindMostRecentLog(isdir, filenames) ==
    IF ~isdir THEN Fault("TypeError", MsgNotDir)
    ELSE ScanListing(None, filenames)

(***************************************************************************)
(* _most_recent_filename and find_most_recent_log of core.py.              *)
(***************************************************************************)
RECURSIVE MaxName(_, _)
MaxName(best, filenames) ==
    IF filenames = <<>> THEN best
    ELSE LET f == Head(filenames)
         IN  MaxName(IF best = None \/ StrLess(best, f) THEN f ELSE best,
                     Tail(filenames))

\* filter(LOG_FILENAME_PATTERN.match, filenames), then max(); None when
\* max() raises ValueError on the empty sequence.
MostRecentFilename(filenames) ==
    MaxName(None, SelectSeq(filenames, MatchesFilenamePattern))

PackageFindMostRecentLog(isdir, filenames) ==
    IF ~isdir THEN Fault("TypeError", MsgNotDir)
    ELSE LET most_recent_filename == MostRecentFilename(filenames)
         IN  IF most_recent_filename = None
             THEN Fault("ValueError", MsgNoLogs)
             ELSE IF ~StrptimeOk(most_recent_filename.token)
             THEN Fault("ValueError", MsgStrptime)
             ELSE LogFile(most_recent_filename)

FindMostRecentLog(program, isdir, filenames) ==
    IF program = "monolith"
    THEN MonolithFindMostRecentLog(isdir, filenames)
    ELSE PackageFindMostRecentLog(isdir, filenames)

(***************************************************************************)
(* Log lines and _iterate_over_requests.                                   *)
(***************************************************************************)
Urls == {"/a", "/b"}
Times == {0, 1}

\* A line that decodes, matches LOG_REQUEST_PATTERN and whose $request
\* splits into method, url and protocol.
RecLine(url, time) == [k |-> "rec", url |-> url, time |-> time]
\* A line that decodes and does not match LOG_REQUEST_PATTERN.
NoMatchLine == [k |-> "nomatch"]
\* A line that decodes and matches, whose $request does not split in three.
BadRequestLine == [k |-> "badreq"]
\* A line whose bytes are not UTF-8.
BadUtf8Line == [k |-> "badutf8"]

LogLines ==
    {RecLine(u, t) : u \in Urls, t \in Times}
        \cup {NoMatchLine, BadRequestLine, BadUtf8Line}

LogRequest(url, time) == [kind |-> "request", url |-> url, time |-> time]

\* The body of the loop "for line in f" of src/log_analyzer.py: what the
\* generator yields for the line, or the fault it raises.
MonolithIterateLine(line) ==
    IF line.k = "badutf8" THEN Fault("UnicodeDecodeError", MsgDecode)
    ELSE IF line.k = "nomatch" THEN None
    ELSE IF line.k = "badreq" THEN None
    ELSE LogRequest(line.url, line.time)

\* The same loop in core.py: the line is not decoded, and the str pattern
\* LOG_REQUEST_PATTERN is applied to the bytes read from the file.
PackageIterateLine(line) == Fault("TypeError", MsgBytes)

IterateLine(program, line) ==
    IF program = "monolith" THEN MonolithIterateLine(line)
    ELSE PackageIterateLine(line)

\* log.extension not in {"log", "gz"}
ExtensionOk(extension) == extension \in {"log", "gz"}

(***************************************************************************)
(* _aggregate_stats_by_url.                                                *)
(***************************************************************************)
Frac(n, d) == [num |-> n, den |-> d]

HasUrl(d, url) == \E i \in DOMAIN d : d[i].url = url

\* A slip in AppendTime: the url's list is replaced, not extended.
AppendTimeOverwriting(d, url, time) ==
    IF HasUrl(d, url)
    THEN [i \in DOMAIN d |->
            IF d[i].url = url THEN [url |-> url, ts |-> <<time>>] ELSE d[i]]
    ELSE Append(d, [url |-> url, ts |-> <<time>>])

\* times[request.url].append(request.time) on a defaultdict(list)
AppendTime(d, url, time) ==
    IF HasUrl(d, url)
    THEN [i \in DOMAIN d |->
            IF d[i].url = url
            THEN [url |-> url, ts |-> Append(d[i].ts, time)]
            ELSE d[i]]
    ELSE Append(d, [url |-> url, ts |-> <<time>>])

\* A slip in CountAll: the count of an empty file is left at 0.
CountAllWithoutDefault(invalid, valid) == invalid + valid

\* count_all = (count_invalid + count_valid) or 1.0
CountAll(invalid, valid) == IF invalid + valid = 0 THEN 1 ELSE invalid + valid

\* A slip in InvalidPartExceeded: >= for >.
InvalidPartReached(invalid, valid, part) ==
    invalid * part.den >= part.num * CountAll(invalid, valid)

\* count_invalid / count_all > allowed_invalid_part
InvalidPartExceeded(invalid, valid, part) ==
    invalid * part.den > part.num * CountAll(invalid, valid)

(***************************************************************************)
(* _median and get_request_stats.                                          *)
(***************************************************************************)
RECURSIVE Sum(_)
Sum(s) == IF s = <<>> THEN 0 ELSE Head(s) + Sum(Tail(s))

\* x put into the ascending sequence s
RECURSIVE InsertAsc(_, _)
InsertAsc(x, s) ==
    IF s = <<>> THEN <<x>>
    ELSE IF x < Head(s) THEN <<x>> \o s
    ELSE <<Head(s)>> \o InsertAsc(x, Tail(s))

\* A slip in Sorted: the list is left as it arrived.
AsArrived(s) == s

\* sorted(times[url])
RECURSIVE Sorted(_)
Sorted(s) == IF s = <<>> THEN <<>> ELSE InsertAsc(Head(s), Sorted(Tail(s)))

\* A slip in Median: both elements are taken at index n_items // 2.
MedianUpper(sorted_list) ==
    LET n_items == Len(sorted_list)
    IN  Frac(2 * sorted_list[(n_items \div 2) + 1], 2)

\* 0.5 * (sorted_list[(n_items - 1) // 2] + sorted_list[n_items // 2]),
\* on a non-empty list (the indices are Python's, from 0)
Median(sorted_list) ==
    LET n_items == Len(sorted_list)
    IN  Frac(sorted_list[((n_items - 1) \div 2) + 1]
                + sorted_list[(n_items \div 2) + 1], 2)

\* _median as a whole: assert sorted_list, "List is empty" comes first.
CheckedMedian(sorted_list) ==
    IF sorted_list = <<>> THEN Fault("AssertionError", MsgEmpty)
    ELSE [kind |-> "ok", result |-> Median(sorted_list)]

\* A slip in UrlStat: the shares are taken of the url's own records.
UrlStatOfItself(entry, valid, time_all) ==
    LET url_count == Len(entry.ts)
        url_sorted_times == Sorted(entry.ts)
        url_time_sum == Sum(entry.ts)
    IN  [url |-> entry.url,
         count |-> url_count,
         count_perc |-> Frac(100 * url_count, url_count),
         time_sum |-> url_time_sum,
         time_perc |-> Frac(100 * url_time_sum, url_time_sum),
         time_avg |-> Frac(url_time_sum, url_count),
         time_max |-> url_sorted_times[Len(url_sorted_times)],
         time_med |-> Median(url_sorted_times)]

\* The LogStat of one url
UrlStat(entry, valid, time_all) ==
    LET url_count == Len(entry.ts)
        url_sorted_times == Sorted(entry.ts)
        url_time_sum == Sum(entry.ts)
    IN  [url |-> entry.url,
         count |-> url_count,
         count_perc |-> Frac(100 * url_count, valid),
         time_sum |-> url_time_sum,
         time_perc |-> Frac(100 * url_time_sum, time_all),
         time_avg |-> Frac(url_time_sum, url_count),
         time_max |-> url_sorted_times[Len(url_sorted_times)],
         time_med |-> Median(url_sorted_times)]

\* The list stats after the loop "for url in times"
UrlStats(d, valid, time_all) ==
    [i \in DOMAIN d |-> UrlStat(d[i], valid, time_all)]

\* x put into s, which is descending by time_sum, behind every element
\* whose time_sum is not smaller
RECURSIVE InsertDesc(_, _)
InsertDesc(x, s) ==
    IF s = <<>> THEN <<x>>
    ELSE IF Head(s).time_sum >= x.time_sum
         THEN <<Head(s)>> \o InsertDesc(x, Tail(s))
         ELSE <<x>> \o s

RECURSIVE SortFrom(_, _)
SortFrom(done, rest) ==
    IF rest = <<>> THEN done
    ELSE SortFrom(InsertDesc(Head(rest), done), Tail(rest))

\* A slip in SortedByTimeSum: an ascending sort read backwards, which
\* turns the order of equal keys around.
RECURSIVE InsertDescFirst(_, _)
InsertDescFirst(x, s) ==
    IF s = <<>> THEN <<x>>
    ELSE IF Head(s).time_sum > x.time_sum
         THEN <<Head(s)>> \o InsertDescFirst(x, Tail(s))
         ELSE <<x>> \o s

RECURSIVE SortFromFirst(_, _)
SortFromFirst(done, rest) ==
    IF rest = <<>> THEN done
    ELSE SortFromFirst(InsertDescFirst(Head(rest), done), Tail(rest))

SortedByTimeSumReversed(s) == SortFromFirst(<<>>, s)

\* sorted(stats, key=attrgetter("time_sum"), reverse=True): stable
SortedByTimeSum(s) == SortFrom(<<>>, s)

\* s[:n], for n >= 0
Truncate(s, n) == SubSeq(s, 1, IF n < Len(s) THEN n ELSE Len(s))

Ok(result) == [kind |-> "ok", result |-> result]

(***************************************************************************)
(* Inputs.                                                                 *)
(***************************************************************************)
\* The directory listings of at most n entries, in every order.
Listings(n) ==
    UNION { { l \in [1..k -> FileNames] :
                \A i, j \in 1..k : i # j => l[i] # l[j] } : k \in 0..n }

\* The values of allowed_invalid_part: 0, 1/2 and 1.
AllowedParts == {Frac(0, 1), Frac(1, 2), Frac(1, 1)}

\* The extensions of the LogFile a direct call of get_request_stats is given.
CallExtensions == {"log", "gz", "bz"}

\* The report directory as main finds it: empty, or holding the report of
\* June 30th 2019.
PriorReports == {{}, {20190630}}

LineBound == IF caller = "main" THEN MaxMainLines ELSE MaxLines

\* The sequences _median is called with directly, as the tests call it.
RECURSIVE SeqsUpTo(_)
SeqsUpTo(n) ==
    IF n = 0 THEN {<<>>}
    ELSE SeqsUpTo(n - 1) \cup [1..n -> Times]

\* The log file before anything was read of it.
UnreadDisk == [lines |-> <<>>, ended |-> FALSE, opens |-> "unknown"]

(***************************************************************************)
(* The state after start-up: nothing has been called.                      *)
(***************************************************************************)
Init ==
    /\ impl \in {"monolith", "package"}
    /\ caller = "none"
    /\ pc = "idle"
    /\ listing = <<>>
    /\ dir_ok = TRUE
    /\ most_recent_log = Unset
    /\ log = Unset
    /\ count = 0
    /\ allowed = Frac(0, 1)
    /\ consumed = <<>>
    /\ f_open = FALSE
    /\ count_valid = 0
    /\ count_invalid = 0
    /\ time_valid = 0
    /\ times = <<>>
    /\ stats = <<>>
    /\ outcome = Unset
    /\ reports = {}
    /\ exit_path = "running"
    /\ run = 1
    /\ disk = UnreadDisk
    /\ prev_outcome = Unset
    /\ reports_before = {}
    /\ writes = <<>>
    /\ stats_runs = {}
    /\ median_in = <<>>
    /\ median_out = Unset

passVars == <<consumed, f_open, count_valid, count_invalid, time_valid,
              times, stats, outcome>>

\* What only main touches, and what only a direct call of _median touches.
mainVars == <<reports, reports_before, writes, stats_runs, exit_path>>
medianVars == <<median_in, median_out>>

(***************************************************************************)
(* A direct call of find_most_recent_log(directory).                       *)
(***************************************************************************)
CallFindMostRecentLog ==
    /\ pc = "idle"
    /\ \E isdir \in BOOLEAN, filenames \in Listings(MaxFiles) :
        /\ ~isdir => filenames = <<>>
        /\ dir_ok' = isdir
        /\ listing' = filenames
        /\ most_recent_log' = FindMostRecentLog(impl, isdir, filenames)
    /\ caller' = "locate"
    /\ pc' = "done"
    /\ UNCHANGED <<impl, log, count, allowed, passVars, mainVars, medianVars,
                   run, disk, prev_outcome>>

(***************************************************************************)
(* A direct call of _median(sorted_list).                                  *)
(***************************************************************************)
CallMedian ==
    /\ pc = "idle"
    /\ \E sorted_list \in SeqsUpTo(MaxMedianLen) :
        /\ median_in' = sorted_list
        /\ median_out' = CheckedMedian(sorted_list)
    /\ caller' = "median"
    /\ pc' = "done"
    /\ UNCHANGED <<impl, listing, dir_ok, most_recent_log, log, count, allowed,
                   passVars, mainVars, run, disk, prev_outcome>>

(***************************************************************************)
(* The pass: _aggregate_stats_by_url driving _iterate_over_requests.       *)
(***************************************************************************)
\* A slip in StartPass: times is one dict shared by every call.
StartPassSharingTimes ==
    /\ count_valid' = 0
    /\ count_invalid' = 0
    /\ time_valid' = 0
    /\ times' = times

\* _aggregate_stats_by_url begins: its accumulators are new objects.
StartPass ==
    /\ count_valid' = 0
    /\ count_invalid' = 0
    /\ time_valid' = 0
    /\ times' = <<>>

\* get_request_stats is entered: nothing is read, nothing is returned yet.
EnterGetRequestStats ==
    /\ StartPass
    /\ consumed' = <<>>
    /\ f_open' = FALSE
    /\ stats' = <<>>
    /\ outcome' = Unset

\* A slip in Raise: the file is opened without a with-block, and a fault
\* leaves it open.
RaiseLeavingOpen(fault) ==
    /\ outcome' = fault
    /\ f_open' = f_open
    /\ pc' = "done"

\* A fault leaves the with-block (the file is closed) and reaches the caller
\* of get_request_stats.
Raise(fault) ==
    /\ outcome' = fault
    /\ f_open' = FALSE
    /\ pc' = "done"

(***************************************************************************)
(* A direct call of get_request_stats(log, count, allowed_invalid_part),   *)
(* and the same call repeated on the unchanged file.                       *)
(***************************************************************************)
CallGetRequestStats ==
    /\ pc = "idle"
    /\ \E extension \in CallExtensions, n \in 0..MaxTopK, part \in AllowedParts :
        /\ log' = LogFile(FileName("ui", 20190102, extension))
        /\ count' = n
        /\ allowed' = part
    /\ EnterGetRequestStats
    /\ caller' = "stats"
    /\ pc' = "open"
    /\ UNCHANGED <<impl, listing, dir_ok, most_recent_log, mainVars,
                   medianVars, run, disk, prev_outcome>>

CallGetRequestStatsAgain ==
    /\ pc = "done"
    /\ caller = "stats"
    /\ run < MaxRuns
    /\ Len(disk.lines) <= MaxRerunLines
    /\ run' = run + 1
    /\ prev_outcome' = outcome
    /\ EnterGetRequestStats
    /\ pc' = "open"
    /\ UNCHANGED <<impl, caller, listing, dir_ok, most_recent_log, log, count,
                   allowed, mainVars, medianVars, disk>>

\* The first next() on the generator: the extension check and the open.
\* IOError stands for every way open or gzip.open and the first read fail
\* (a missing file, no permission, no gzip stream); an unchanged file opens
\* or fails the same way every time.
OpenLog ==
    /\ pc = "open"
    /\ IF ~ExtensionOk(log.extension)
       THEN /\ Raise(Fault("ValueError", MsgExtension))
            /\ UNCHANGED disk
       ELSE \E opened \in BOOLEAN :
               /\ disk.opens = "yes" => opened
               /\ disk.opens = "no" => ~opened
               /\ disk' = [disk EXCEPT !.opens = IF opened THEN "yes" ELSE "no"]
               /\ IF opened
                  THEN /\ f_open' = TRUE
                       /\ pc' = "loop"
                       /\ UNCHANGED outcome
                  ELSE Raise(Fault("IOError", MsgOpen))
    /\ UNCHANGED <<impl, caller, listing, dir_ok, most_recent_log, log, count,
                   allowed, consumed, count_valid, count_invalid, time_valid,
                   times, stats, mainVars, medianVars, run, prev_outcome>>

\* A slip in ReadLine: the invalid part is checked at every invalid row.
ReadLineFailingFast ==
    /\ pc = "loop"
    /\ \E line \in LogLines :
        /\ IF Len(consumed) < Len(disk.lines)
           THEN /\ line = disk.lines[Len(consumed) + 1]
                /\ UNCHANGED disk
           ELSE /\ ~disk.ended
                /\ Len(consumed) < LineBound
                /\ disk' = [disk EXCEPT !.lines = Append(@, line)]
        /\ LET request == IterateLine(impl, line)
           IN  /\ consumed' = Append(consumed, line)
               /\ IF request.kind = "fault"
                  THEN /\ Raise(request)
                       /\ UNCHANGED <<count_valid, count_invalid, time_valid,
                                      times>>
                  ELSE IF request = None
                  THEN /\ count_invalid' = count_invalid + 1
                       /\ IF InvalidPartExceeded(count_invalid + 1,
                                                 count_valid, allowed)
                          THEN Raise(Fault("ValueError", MsgTooMany))
                          ELSE UNCHANGED <<outcome, f_open, pc>>
                       /\ UNCHANGED <<count_valid, time_valid, times>>
                  ELSE /\ count_valid' = count_valid + 1
                       /\ time_valid' = time_valid + request.time
                       /\ times' = AppendTime(times, request.url, request.time)
                       /\ UNCHANGED <<count_invalid, outcome, f_open, pc>>
    /\ UNCHANGED <<impl, caller, listing, dir_ok, most_recent_log, log, count,
                   allowed, stats, mainVars, medianVars, run, prev_outcome>>

\* One round of "for request in _iterate_over_requests(log)".  The line is
\* the file's next line: one read before, or one met for the first time.
ReadLine ==
    /\ pc = "loop"
    /\ \E line \in LogLines :
        /\ IF Len(consumed) < Len(disk.lines)
           THEN /\ line = disk.lines[Len(consumed) + 1]
                /\ UNCHANGED disk
           ELSE /\ ~disk.ended
                /\ Len(consumed) < LineBound
                /\ disk' = [disk EXCEPT !.lines = Append(@, line)]
        /\ LET request == IterateLine(impl, line)
           IN  /\ consumed' = Append(consumed, line)
               /\ IF request.kind = "fault"
                  THEN /\ Raise(request)
                       /\ UNCHANGED <<count_valid, count_invalid, time_valid,
                                      times>>
                  ELSE IF request = None
                  THEN /\ count_invalid' = count_invalid + 1
                       /\ UNCHANGED <<count_valid, time_valid, times, outcome,
                                      f_open, pc>>
                  ELSE /\ count_valid' = count_valid + 1
                       /\ time_valid' = time_valid + request.time
                       /\ times' = AppendTime(times, request.url, request.time)
                       /\ UNCHANGED <<count_invalid, outcome, f_open, pc>>
    /\ UNCHANGED <<impl, caller, listing, dir_ok, most_recent_log, log, count,
                   allowed, stats, mainVars, medianVars, run, prev_outcome>>

\* The file has no more lines: the with-block ends, the generator is spent.
EndOfFile ==
    /\ pc = "loop"
    /\ Len(consumed) = Len(disk.lines)
    /\ disk' = [disk EXCEPT !.ended = TRUE]
    /\ f_open' = FALSE
    /\ pc' = "gate"
    /\ UNCHANGED <<impl, caller, listing, dir_ok, most_recent_log, log, count,
                   allowed, consumed, count_valid, count_invalid, time_valid,
                   times, stats, outcome, mainVars, medianVars, run,
                   prev_outcome>>

\* The check of the invalid part, after the loop: the division by count_all,
\* then the comparison.
Gate ==
    /\ pc = "gate"
    /\ IF CountAll(count_invalid, count_valid) = 0
       THEN Raise(Fault("ZeroDivisionError", MsgZero))
       ELSE IF InvalidPartExceeded(count_invalid, count_valid, allowed)
       THEN Raise(Fault("ValueError", MsgTooMany))
       ELSE /\ pc' = "stats"
            /\ UNCHANGED <<outcome, f_open>>
    /\ UNCHANGED <<impl, caller, listing, dir_ok, most_recent_log, log, count,
                   allowed, consumed, count_valid, count_invalid, time_valid,
                   times, stats, mainVars, medianVars, run, disk, prev_outcome>>

\* The rest of get_request_stats: the statistics of every url, sorted, cut.
\* With a url in times and time_all = 0.0, 100 * url_time_sum / time_all
\* raises ZeroDivisionError.
BuildStats ==
    /\ pc = "stats"
    /\ IF times # <<>> /\ time_valid = 0
       THEN /\ Raise(Fault("ZeroDivisionError", MsgZero))
            /\ UNCHANGED stats
       ELSE /\ stats' = SortedByTimeSum(UrlStats(times, count_valid, time_valid))
            /\ outcome' = Ok(Truncate(stats', count))
            /\ pc' = "done"
            /\ UNCHANGED f_open
    /\ UNCHANGED <<impl, caller, listing, dir_ok, most_recent_log, log, count,
                   allowed, consumed, count_valid, count_invalid, time_valid,
                   times, mainVars, medianVars, run, disk, prev_outcome>>

(***************************************************************************)
(* main of src/log_analyzer.py and of src/log_analyzer/__main__.py.        *)
(* exit_path is the diagnostic the run ends with; "exception" is the       *)
(* traceback logged by the handler around main() in src/log_analyzer.py.   *)
(***************************************************************************)
\* A slip in MonolithLocateExit: the report file is not looked for.
MonolithLocateExitWithoutCheck(found, existing) ==
    IF found.kind = "fault" THEN "exception"
    ELSE IF found = None THEN "no_valid_logs"
    ELSE "continue"

\* main of src/log_analyzer.py from the call of find_most_recent_log to the
\* check of the report file: the exit taken, or "continue".
MonolithLocateExit(found, existing) ==
    IF found.kind = "fault" THEN "exception"
    ELSE IF found = None THEN "no_valid_logs"
    ELSE IF found.date \in existing THEN "report_exists"
    ELSE "continue"

\* The same part of main of __main__.py.
PackageLocateExit(found, existing) ==
    IF found.kind = "fault"
    THEN (IF found.exc = "TypeError" THEN "invalid_log_directory"
          ELSE "unexpected_locate_error")
    ELSE IF found = None THEN "no_valid_logs"
    ELSE IF found.date \in existing THEN "report_exists"
    ELSE "continue"

LocateExit(program, found, existing) ==
    IF program = "monolith" THEN MonolithLocateExit(found, existing)
    ELSE PackageLocateExit(found, existing)

\* A slip in MonolithStatsExit: an empty result goes to the writer too.
MonolithStatsExitWritingEmpty(result) ==
    IF result.kind = "fault" THEN "exception"
    ELSE "write"

\* main of src/log_analyzer.py after get_request_stats: the exit taken, or
\* "write".
MonolithStatsExit(result) ==
    IF result.kind = "fault" THEN "exception"
    ELSE IF result.result = <<>> THEN "no_valid_records"
    ELSE "write"

\* The same part of main of __main__.py: except ValueError, then
\* except Exception.
PackageStatsExit(result) ==
    IF result.kind = "fault"
    THEN (IF IsValueError(result.exc) THEN "allowed_invalid_part_exceeded"
          ELSE "unexpected_stats_error")
    ELSE IF result.result = <<>> THEN "no_valid_records"
    ELSE "write"

StatsExit(program, result) ==
    IF program = "monolith" THEN MonolithStatsExit(result)
    ELSE PackageStatsExit(result)

\* What main logs when the writer raises IOError.
WriteFailedExit(program) ==
    IF program = "monolith" THEN "exception" ELSE "unable_to_write_report"

\* How a call of the writer ends: the report is written ("ok"), open(to, "wb")
\* raises IOError ("failed"), or f.write raises IOError after open created
\* the file ("partial").
WriteEnds == {"ok", "failed", "partial"}

\* main reads its configuration and finds or creates the report directory.
\* A configuration that cannot be read and a report directory that cannot
\* be created end the run before anything else happens; they are left out.
MainStart ==
    /\ pc = "idle"
    /\ caller' = "main"
    /\ \E n \in 0..MaxTopK, part \in AllowedParts, existing \in PriorReports :
        /\ count' = n
        /\ allowed' = part
        /\ reports' = existing
        /\ reports_before' = existing
    /\ pc' = "main_locate"
    /\ UNCHANGED <<impl, listing, dir_ok, most_recent_log, log, passVars,
                   writes, stats_runs, exit_path, medianVars, run, disk,
                   prev_outcome>>

\* main calls find_most_recent_log(log_dir) and looks for the report file;
\* without one it calls get_request_stats.  From the second run on the log
\* directory is the one the first run found.
MainLocate ==
    /\ pc = "main_locate"
    /\ \E isdir \in BOOLEAN, filenames \in Listings(MaxMainFiles) :
        /\ ~isdir => filenames = <<>>
        /\ run > 1 => (isdir = dir_ok /\ filenames = listing)
        /\ dir_ok' = isdir
        /\ listing' = filenames
        /\ most_recent_log' = FindMostRecentLog(impl, isdir, filenames)
    /\ LET exit == LocateExit(impl, most_recent_log', reports)
       IN  IF exit = "continue"
           THEN /\ log' = most_recent_log'
                /\ EnterGetRequestStats
                /\ stats_runs' = stats_runs \cup {run}
                /\ pc' = "open"
                /\ UNCHANGED exit_path
           ELSE /\ exit_path' = exit
                /\ pc' = "exit"
                /\ UNCHANGED <<log, passVars, stats_runs>>
    /\ UNCHANGED <<impl, caller, count, allowed, reports, reports_before,
                   writes, medianVars, run, disk, prev_outcome>>

\* main after get_request_stats: the handlers, the empty result, the writer.
MainAfterStats ==
    /\ pc = "done"
    /\ caller = "main"
    /\ LET exit == StatsExit(impl, outcome)
       IN  IF exit = "write"
           THEN \E end \in WriteEnds :
                   /\ writes' = Append(writes,
                                    [run |-> run,
                                     date |-> log.date,
                                     existed |-> log.date \in reports,
                                     result |-> outcome,
                                     end |-> end])
                   /\ reports' = IF end = "failed" THEN reports
                                 ELSE reports \cup {log.date}
                   /\ exit_path' = IF end = "ok" THEN "report_generated"
                                   ELSE WriteFailedExit(impl)
           ELSE /\ exit_path' = exit
                /\ UNCHANGED <<reports, writes>>
    /\ pc' = "exit"
    /\ UNCHANGED <<impl, caller, listing, dir_ok, most_recent_log, log, count,
                   allowed, passVars, reports_before, stats_runs, medianVars,
                   run, disk, prev_outcome>>

\* The program is started again on the unchanged log directory and the
\* unchanged configuration: a new process.
MainAgain ==
    /\ pc = "exit"
    /\ caller = "main"
    /\ run < MaxRuns
    /\ Len(disk.lines) <= MaxMainRerunLines
    /\ run' = run + 1
    /\ reports_before' = reports
    /\ most_recent_log' = Unset
    /\ log' = Unset
    /\ EnterGetRequestStats
    /\ exit_path' = "running"
    /\ pc' = "main_locate"
    /\ UNCHANGED <<impl, caller, listing, dir_ok, count, allowed, reports,
                   writes, stats_runs, medianVars, disk, prev_outcome>>

(***************************************************************************)
(* The specification.                                                      *)
(***************************************************************************)
Next ==
    \/ CallFindMostRecentLog
    \/ CallMedian
    \/ CallGetRequestStats
    \/ CallGetRequestStatsAgain
    \/ OpenLog
    \/ ReadLine
    \/ EndOfFile
    \/ Gate
    \/ BuildStats
    \/ MainStart
    \/ MainLocate
    \/ MainAfterStats
    \/ MainAgain

Spec == Init /\ [][Next]_vars

\* Every step that can be taken is taken in the end: the interpreter runs on.
FairSpec == Spec /\ WF_vars(Next)

(***************************************************************************)
(* What the properties read off the inputs, without the accumulators.      *)
(***************************************************************************)
IsRecord(line) == line.k = "rec"
IsInvalidRow(line) == line.k \in {"nomatch", "badreq"}
IsUndecodable(line) == line.k = "badutf8"

NumValid(lines) == Len(SelectSeq(lines, IsRecord))
NumInvalid(lines) == Len(SelectSeq(lines, IsInvalidRow))

RECURSIVE TimeOf(_)
TimeOf(lines) ==
    IF lines = <<>> THEN 0
    ELSE (IF IsRecord(Head(lines)) THEN Head(lines).time ELSE 0)
            + TimeOf(Tail(lines))

RecordsOf(url, lines) ==
    LET OfUrl(line) == IsRecord(line) /\ line.url = url
    IN  SelectSeq(lines, OfUrl)

UrlsOf(lines) == {lines[i].url : i \in {j \in DOMAIN lines : IsRecord(lines[j])}}

FirstSeen(url, lines) ==
    CHOOSE i \in DOMAIN lines :
        /\ IsRecord(lines[i]) /\ lines[i].url = url
        /\ \A j \in 1..(i - 1) : ~(IsRecord(lines[j]) /\ lines[j].url = url)

\* invalid / (invalid + valid) > part, the ratio of an empty file being 0
RatioExceeds(lines, part) ==
    /\ NumInvalid(lines) + NumValid(lines) > 0
    /\ NumInvalid(lines) * part.den
          > part.num * (NumInvalid(lines) + NumValid(lines))

RatioEquals(lines, part) ==
    /\ NumInvalid(lines) + NumValid(lines) > 0
    /\ NumInvalid(lines) * part.den
          = part.num * (NumInvalid(lines) + NumValid(lines))

SameFraction(a, b) == a.num * b.den = b.num * a.den

\* get_request_stats has returned or raised.
Returned == pc \in {"done", "exit"} /\ outcome # Unset

IsTooManyInvalid(o) ==
    o.kind = "fault" /\ o.exc = "ValueError" /\ o.msg = MsgTooMany

\* cannot open, undecodable text, a str pattern on bytes, unsupported extension
IsFileLevelFault(o) ==
    /\ o.kind = "fault"
    /\ \/ o.exc \in {"IOError", "UnicodeDecodeError", "TypeError"}
       \/ o.exc = "ValueError" /\ o.msg = MsgExtension

\* The pass read the whole file.
PassCompleted == Returned /\ ~IsFileLevelFault(outcome)

\* find_most_recent_log has returned or raised, on an existing directory.
Located == most_recent_log # Unset /\ dir_ok

ValidEntries(filenames) ==
    {filenames[i] : i \in {j \in DOMAIN filenames :
        MatchesFilenamePattern(filenames[j]) /\ StrptimeOk(filenames[j].token)}}

GreatestDate(entries) == CHOOSE d \in {e.token : e \in entries} :
                            \A e \in entries : e.token <= d

(***************************************************************************)
(* The properties.                                                         *)
(***************************************************************************)

\* C1: get_request_stats raises "Too many invalid rows" exactly when the
\* pass read the whole file and invalid / (invalid + valid) is strictly
\* greater than allowed_invalid_part, the ratio of a file without rows
\* being 0; a ratio equal to the allowance raises nothing.
C1_TooManyIffRatioExceeds ==
    Returned =>
        (IsTooManyInvalid(outcome)
            <=> (PassCompleted /\ RatioExceeds(consumed, allowed)))

\* A file whose invalid ratio equals the allowance (and is not 0) passed.
C1_Witness ==
    /\ Returned
    /\ outcome.kind = "ok"
    /\ NumInvalid(consumed) > 0
    /\ RatioEquals(consumed, allowed)

StoredCount(d) == Sum([i \in DOMAIN d |-> Len(d[i].ts)])
StoredTime(d) == Sum([i \in DOMAIN d |-> Sum(d[i].ts)])
CountSum(s) == Sum([i \in DOMAIN s |-> s[i].count])

\* C5: after every prefix of the lines, count_valid is the number of
\* durations stored in times and time_valid their sum, both those of the
\* records read; and the counts of the statistics before the cut add up to
\* the number of valid records of the file.
C5_NoRecordLost ==
    /\ count_valid = StoredCount(times)
    /\ time_valid = StoredTime(times)
    /\ pc \in {"loop", "gate", "stats"} =>
          /\ count_valid = NumValid(consumed)
          /\ time_valid = TimeOf(consumed)
    /\ (Returned /\ outcome.kind = "ok") => CountSum(stats) = NumValid(consumed)

\* Three records of two urls were aggregated and the result was cut to one.
C5_Witness ==
    /\ Returned
    /\ outcome.kind = "ok"
    /\ count_valid = 3
    /\ Len(stats) = 2
    /\ Len(outcome.result) = 1

\* C6: count_perc and time_perc of every returned LogStat are the url's
\* share of all valid records of the file and of their whole duration,
\* whatever count cuts away.
C6_SharesOfWholeFile ==
    (Returned /\ outcome.kind = "ok") =>
        \A i \in DOMAIN outcome.result :
            LET s == outcome.result[i]
                own == RecordsOf(s.url, consumed)
            IN  /\ s.count_perc.den # 0
                /\ s.time_perc.den # 0
                /\ SameFraction(s.count_perc,
                                Frac(100 * Len(own), NumValid(consumed)))
                /\ SameFraction(s.time_perc,
                                Frac(100 * TimeOf(own), TimeOf(consumed)))

\* A result that lost a url to the cut and kept one with a positive time.
C6_Witness ==
    /\ Returned
    /\ outcome.kind = "ok"
    /\ Len(outcome.result) >= 1
    /\ Len(outcome.result) < Len(stats)
    /\ outcome.result[1].time_sum < TimeOf(consumed)

\* C7: the returned sequence descends by time_sum, and urls of equal
\* time_sum stand in the order of their first records in the file.
C7_SortedStable ==
    (Returned /\ outcome.kind = "ok") =>
        \A i, j \in DOMAIN outcome.result :
            i < j =>
                LET a == outcome.result[i]
                    b == outcome.result[j]
                IN  /\ a.time_sum = TimeOf(RecordsOf(a.url, consumed))
                    /\ a.time_sum >= b.time_sum
                    /\ a.time_sum = b.time_sum =>
                          FirstSeen(a.url, consumed) < FirstSeen(b.url, consumed)

\* Two urls of equal time_sum, "/b" seen first, returned as "/b", "/a".
C7_Witness ==
    /\ Returned
    /\ outcome.kind = "ok"
    /\ Len(outcome.result) = 2
    /\ outcome.result[1].url = "/b"
    /\ outcome.result[2].url = "/a"
    /\ outcome.result[1].time_sum = outcome.result[2].time_sum

\* C2: on every directory with a valid entry (a name that matches the
\* pattern and whose 8 digits are a calendar date), find_most_recent_log
\* returns a handle of a valid entry with the greatest date among them;
\* an entry whose digits are no calendar date is not selected and raises
\* nothing.
C2_GreatestValidDate ==
    (Located /\ ValidEntries(listing) # {}) =>
        /\ most_recent_log.kind = "log"
        /\ most_recent_log.name \in ValidEntries(listing)
        /\ most_recent_log.date = GreatestDate(ValidEntries(listing))

\* C3: on every existing directory without a valid entry,
\* find_most_recent_log returns None and raises nothing, and main ends
\* with "There are no valid logs in the directory."
C3_NoValidLogsIsBenign ==
    (Located /\ ValidEntries(listing) = {}) =>
        /\ most_recent_log = None
        /\ (caller = "main" /\ pc = "exit") => exit_path = "no_valid_logs"

TiedForGreatestDate(filenames) ==
    {e \in ValidEntries(filenames) :
        e.token = GreatestDate(ValidEntries(filenames))}

\* C4: when several valid entries share the greatest date, the handle
\* returned is the one of the greatest name, .log before .gz, in whatever
\* order the directory enumerates them.
C4_TieByGreatestName ==
    (Located /\ most_recent_log.kind = "log"
        /\ Cardinality(TiedForGreatestDate(listing)) >= 2) =>
        \A e \in TiedForGreatestDate(listing) :
            e = most_recent_log.name \/ StrLess(e, most_recent_log.name)

Min(a, b) == IF a < b THEN a ELSE b

ReturnsFirstOfRanking ==
    /\ outcome.kind = "ok"
    /\ Len(outcome.result) = Min(count, Cardinality(UrlsOf(consumed)))
    /\ outcome.result = SubSeq(stats, 1, Len(outcome.result))
    /\ Len(stats) = Cardinality(UrlsOf(consumed))

\* C8: for every count >= 0 and every file that passes the check of the
\* invalid part with d urls, get_request_stats returns min(count, d)
\* entries, the first of the ranking by time_sum.
C8_ExactlyMinTopK ==
    (PassCompleted /\ ~RatioExceeds(consumed, allowed)) => ReturnsFirstOfRanking

HasUndecodable(lines) == \E i \in DOMAIN lines : IsUndecodable(lines[i])

\* C9: once a line that is not UTF-8 has been read, the pass has ended
\* with UnicodeDecodeError at that line, whatever allowed_invalid_part is:
\* the line is in neither counter and no statistics are returned.
C9_UndecodableLineAborts ==
    HasUndecodable(consumed) =>
        /\ outcome.kind = "fault"
        /\ outcome.exc = "UnicodeDecodeError"
        /\ IsUndecodable(consumed[Len(consumed)])
        /\ count_invalid = NumInvalid(consumed)
        /\ count_valid = NumValid(consumed)

\* C10: a fault of the file (cannot open, undecodable text, unsupported
\* extension) reaches the caller of get_request_stats as an exception of
\* another class than the ValueError of "Too many invalid rows", and main
\* never ends such a run with "Allowed invalid records part is exceeded".
C10_FileFaultsDistinct ==
    /\ (Returned /\ IsFileLevelFault(outcome)) => outcome.exc # "ValueError"
    /\ (caller = "main" /\ pc = "exit" /\ IsFileLevelFault(outcome)) =>
          exit_path # "allowed_invalid_part_exceeded"

(***************************************************************************)
(* What does hold where a property above fails.                            *)
(***************************************************************************)
\* find_most_recent_log of src/log_analyzer.py skips what is no calendar
\* date and returns None when nothing is left.
MonolithLocatorSkipsInvalidDates ==
    impl = "monolith" => (C2_GreatestValidDate /\ C3_NoValidLogsIsBenign)

\* find_most_recent_log of core.py, when it returns, returns the greatest
\* name.
PackageLocatorTakesGreatestName ==
    impl = "package" => C4_TieByGreatestName

\* But for a file whose records all took 0.0, the result is the first
\* min(count, d) entries of the ranking.
TopKButForZeroTime ==
    (PassCompleted /\ ~RatioExceeds(consumed, allowed)
        /\ ~(NumValid(consumed) > 0 /\ TimeOf(consumed) = 0)) =>
        ReturnsFirstOfRanking

\* _iterate_over_requests of src/log_analyzer.py raises UnicodeDecodeError
\* at the line.
MonolithAbortsAtUndecodableLine ==
    impl = "monolith" => C9_UndecodableLineAborts

\* main never takes a fault of the file for an exceeded invalid part.
MainNeverMisreportsFileFault ==
    (caller = "main" /\ pc = "exit" /\ IsFileLevelFault(outcome)) =>
        exit_path # "allowed_invalid_part_exceeded"

(***************************************************************************)
(* main and the writer.                                                    *)
(***************************************************************************)
\* The writer was called in the running run of main.
WriterCalledThisRun == \E i \in DOMAIN writes : writes[i].run = run

\* find_most_recent_log raised or found no log.
LocatorFailed == most_recent_log.kind = "fault" \/ most_recent_log = None

\* The step main is at can be taken.
MainCanStep ==
    CASE pc = "main_locate" -> ENABLED MainLocate
      [] pc = "open" -> ENABLED OpenLog
      [] pc = "loop" -> (ENABLED EndOfFile) \/ (ENABLED ReadLine)
      [] pc = "gate" -> ENABLED Gate
      [] pc = "stats" -> ENABLED BuildStats
      [] pc = "done" -> ENABLED MainAfterStats
      [] OTHER -> FALSE

\* C11: in every run of main the writer is called only after
\* get_request_stats has returned a non-empty result, and a report file
\* appears only by a call of the writer; in a run where the locator raises
\* or finds no log, get_request_stats raises, or its result is empty, the
\* writer is not called and no report file is created; and a run that has
\* not ended is never stuck: it has a next step until main exits.
C11_WriterOnlyAfterNonEmptyResult ==
    /\ \A i \in DOMAIN writes :
          writes[i].result.kind = "ok" /\ writes[i].result.result # <<>>
    /\ reports # reports_before => WriterCalledThisRun
    /\ (caller = "main"
          /\ (LocatorFailed \/ outcome.kind = "fault" \/ outcome = Ok(<<>>)))
       => (~WriterCalledThisRun /\ reports = reports_before)
    /\ (caller = "main" /\ pc # "exit") => MainCanStep

\* A run of main that ended on too many invalid rows, beside an older
\* report: no call of the writer, the report directory as it was.
C11_Witness ==
    /\ caller = "main"
    /\ pc = "exit"
    /\ IsTooManyInvalid(outcome)
    /\ consumed # <<>>
    /\ writes = <<>>
    /\ reports = {20190630}

\* Under fairness, every run of main ends.
MainTerminates == (caller = "main") ~> (pc = "exit")

(***************************************************************************)
(* The median.                                                             *)
(***************************************************************************)
\* The k-th smallest element of s (k from 1), found by counting.
KthSmallest(s, k) ==
    CHOOSE v \in {s[i] : i \in DOMAIN s} :
        /\ Cardinality({i \in DOMAIN s : s[i] < v}) < k
        /\ k <= Cardinality({i \in DOMAIN s : s[i] <= v})

\* The average of the elements that s, sorted ascending, has at Python's
\* indices (n - 1) // 2 and n // 2.
MedianOfAnyOrder(s) ==
    Frac(KthSmallest(s, ((Len(s) - 1) \div 2) + 1)
            + KthSmallest(s, (Len(s) \div 2) + 1), 2)

IsAscending(s) == \A i \in 1..(Len(s) - 1) : s[i] <= s[i + 1]

\* The times of the url's records, in the order the file has them.
ArrivalTimes(url, lines) ==
    LET records == RecordsOf(url, lines)
    IN  [i \in 1..Len(records) |-> records[i].time]

\* time_med of every LogStat is the median of the url's times whatever the
\* order they arrived in.
TimeMedOfAnyOrder ==
    (Returned /\ outcome.kind = "ok") =>
        \A i \in DOMAIN stats :
            SameFraction(stats[i].time_med,
                         MedianOfAnyOrder(ArrivalTimes(stats[i].url, consumed)))

\* _median raises AssertionError on the empty list.
MedianOfEmptyAsserts ==
    (caller = "median" /\ median_in = <<>>)
        => (median_out.kind = "fault" /\ median_out.exc = "AssertionError")

\* C12 as stated: for every non-empty list given to _median in any order,
\* the result is the average of the elements at indices (n - 1) // 2 and
\* n // 2 of the list sorted ascending, so that time_med does not depend on
\* the order of arrival; on the empty list _median raises AssertionError.
C12_MedianOfAnyOrder ==
    /\ (caller = "median" /\ median_in # <<>>)
          => /\ median_out.kind = "ok"
             /\ SameFraction(median_out.result, MedianOfAnyOrder(median_in))
    /\ TimeMedOfAnyOrder
    /\ MedianOfEmptyAsserts

\* C12 amended: for every non-empty list given to _median in ascending
\* order, the result is the average of its elements at indices (n - 1) // 2
\* and n // 2; get_request_stats sorts the times of a url before it calls
\* _median, so that time_med is the median of the times in whatever order
\* they arrived; on the empty list _median raises AssertionError.
C12_MedianOfSortedList ==
    /\ (caller = "median" /\ median_in # <<>> /\ IsAscending(median_in))
          => /\ median_out.kind = "ok"
             /\ SameFraction(median_out.result, MedianOfAnyOrder(median_in))
    /\ TimeMedOfAnyOrder
    /\ MedianOfEmptyAsserts

\* A url whose times arrived as 1, 0, 1: the list as it arrived has 0 in
\* the middle, the sorted list has 1.
C12_Witness ==
    /\ Returned
    /\ outcome.kind = "ok"
    /\ Len(stats) = 1
    /\ ArrivalTimes(stats[1].url, consumed) = <<1, 0, 1>>
    /\ SameFraction(stats[1].time_med, Frac(1, 1))

\* _median called with a sorted list of even length.
MedianWitness ==
    /\ caller = "median"
    /\ median_in = <<0, 1>>
    /\ median_out = [kind |-> "ok", result |-> Frac(1, 2)]

(***************************************************************************)
(* A file without valid records.                                           *)
(***************************************************************************)
\* C13: whenever the pass ends with no valid record and the invalid part
\* does not exceed the allowance (so for a file without lines, whatever
\* allowed_invalid_part and count are), get_request_stats returns the empty
\* list and raises nothing.
C13_NoRecordsGivesEmptyResult ==
    (PassCompleted /\ NumValid(consumed) = 0
        /\ ~RatioExceeds(consumed, allowed))
    => outcome = Ok(<<>>)

\* A file without lines, read with allowed_invalid_part = 0 and the greatest
\* count.
C13_Witness ==
    /\ Returned
    /\ consumed = <<>>
    /\ disk.ended
    /\ allowed = Frac(0, 1)
    /\ count = MaxTopK
    /\ outcome = Ok(<<>>)

\* A file of invalid rows only, all of them allowed.
AllInvalidAllowedWitness ==
    /\ Returned
    /\ consumed # <<>>
    /\ NumInvalid(consumed) = Len(consumed)
    /\ outcome = Ok(<<>>)

(***************************************************************************)
(* get_request_stats called again on the unchanged file.                   *)
(***************************************************************************)
\* C14: a call of get_request_stats repeated on the same unchanged file
\* with the same count and allowed_invalid_part ends as the call before it
\* did: the same fault, or the same list of LogStat, entry by entry and in
\* the same order; the repeated call starts from new accumulators, nothing
\* of the earlier call is left in them.
C14_RepeatedCallGivesSameOutcome ==
    /\ (caller = "stats" /\ run > 1 /\ Returned) => outcome = prev_outcome
    /\ (caller = "stats" /\ run > 1 /\ pc = "open")
          => /\ times = <<>>
             /\ count_valid = 0 /\ count_invalid = 0 /\ time_valid = 0

\* The second call returned the LogStat of two urls, both kept by count.
C14_Witness ==
    /\ caller = "stats"
    /\ run = 2
    /\ Returned
    /\ outcome.kind = "ok"
    /\ Len(outcome.result) = 2
    /\ outcome = prev_outcome

\* The second call raised as the first did, on too many invalid rows.
RepeatedFaultWitness ==
    /\ caller = "stats"
    /\ run = 2
    /\ Returned
    /\ IsTooManyInvalid(outcome)
    /\ IsTooManyInvalid(prev_outcome)

(***************************************************************************)
(* When the pass raises.                                                   *)
(***************************************************************************)
\* The line makes _iterate_over_requests raise.
IsFaultLine(line) == IterateLine(impl, line).kind = "fault"

\* C15: "Too many invalid rows" is raised only after the last line of the
\* file was read, never inside the loop, however many invalid rows were
\* seen; and when a line makes the iteration raise, the outcome of the pass
\* is that fault, not "Too many invalid rows", whatever the number of
\* invalid rows before it.
C15_TooManyOnlyAfterWholeFile ==
    /\ IsTooManyInvalid(outcome)
          => /\ consumed = disk.lines
             /\ disk.ended
             /\ \A i \in DOMAIN consumed : ~IsFaultLine(consumed[i])
    /\ pc = "loop" => outcome = Unset
    /\ (\E i \in DOMAIN consumed : IsFaultLine(consumed[i]))
          => /\ pc \in {"done", "exit"}
             /\ outcome = IterateLine(impl, consumed[Len(consumed)])
             /\ ~IsTooManyInvalid(outcome)

\* With nothing allowed, the first row is invalid and a valid record follows:
\* the second call, which finds both lines in the file, raises after both.
C15_Witness ==
    /\ run = 2
    /\ allowed = Frac(0, 1)
    /\ Len(disk.lines) = 2
    /\ IsInvalidRow(disk.lines[1])
    /\ IsRecord(disk.lines[2])
    /\ consumed = disk.lines
    /\ IsTooManyInvalid(outcome)

\* The second call inside its loop: an invalid row seen, nothing allowed, a
\* line still unread, nothing raised.
UnreadLineRemainsWitness ==
    /\ run = 2
    /\ pc = "loop"
    /\ allowed = Frac(0, 1)
    /\ count_invalid = 1
    /\ Len(consumed) < Len(disk.lines)
    /\ outcome = Unset

\* With nothing allowed, an invalid row and then an undecodable line: the
\* outcome is UnicodeDecodeError.
FaultAfterInvalidRowWitness ==
    /\ allowed = Frac(0, 1)
    /\ Len(consumed) = 2
    /\ IsInvalidRow(consumed[1])
    /\ IsUndecodable(consumed[2])
    /\ outcome.kind = "fault"
    /\ outcome.exc = "UnicodeDecodeError"

(***************************************************************************)
(* The file object.                                                        *)
(***************************************************************************)
\* C16: the file object _iterate_over_requests opened is open only while
\* the loop over its lines runs; on every way out of the pass (the end of
\* the file, a fault raised at a line, "Too many invalid rows" after the
\* loop) it is closed when get_request_stats returns or raises.
C16_FileClosedAfterPass ==
    /\ f_open => pc = "loop"
    /\ Returned => ~f_open

\* The file was opened, a record was read, then an undecodable line raised:
\* the fault has reached the caller and the file is closed.
C16_Witness ==
    /\ Returned
    /\ disk.opens = "yes"
    /\ Len(consumed) = 2
    /\ IsRecord(consumed[1])
    /\ IsUndecodable(consumed[2])
    /\ outcome.kind = "fault"
    /\ outcome.exc = "UnicodeDecodeError"
    /\ ~f_open

\* The file was opened and read to its end, then "Too many invalid rows".
ClosedBeforeTooManyWitness ==
    /\ Returned
    /\ disk.opens = "yes"
    /\ disk.ended
    /\ IsTooManyInvalid(outcome)
    /\ ~f_open

(***************************************************************************)
(* The faults get_request_stats can end with.                              *)
(***************************************************************************)
\* get_request_stats of src/log_analyzer.py was given a file with a
\* supported extension, the file opened and every line read was decoded.
ReadableFileGiven ==
    /\ impl = "monolith"
    /\ Returned
    /\ ExtensionOk(log.extension)
    /\ disk.opens = "yes"
    /\ ~HasUndecodable(consumed)

\* C17: for every log file with a supported extension that opens and whose
\* lines all decode, whatever its valid and invalid rows and its times (a
\* file whose valid times are all 0.0 too), get_request_stats ends with a
\* list of LogStat or with "Too many invalid rows", and with no other
\* fault such as a division by zero.
C17_OnlyStatsOrTooMany ==
    ReadableFileGiven => (outcome.kind = "ok" \/ IsTooManyInvalid(outcome))

\* The same for the files whose valid records, if any, take some time.
OnlyStatsOrTooManyButForZeroTime ==
    (ReadableFileGiven
        /\ (NumValid(consumed) = 0 \/ TimeOf(consumed) > 0))
    => (outcome.kind = "ok" \/ IsTooManyInvalid(outcome))

\* A pass that is not over can go on: get_request_stats ends.
PassCanStep ==
    (caller = "stats" /\ pc \in {"open", "loop", "gate", "stats"})
        => ENABLED (OpenLog \/ ReadLine \/ EndOfFile \/ Gate \/ BuildStats)

(***************************************************************************)
(* main run again on the unchanged log directory.                          *)
(***************************************************************************)
\* main has selected a log whose report was in the report directory when
\* the run began.
ReportFound ==
    /\ caller = "main"
    /\ most_recent_log.kind = "log"
    /\ most_recent_log.date \in reports_before

\* C18: when the report of the selected log's date exists, main ends
\* without calling get_request_stats or the writer; so over the runs on an
\* unchanged log directory no call of the writer is made for a date whose
\* report exists, no report disappears, and after the run that wrote the
\* report no later run calls get_request_stats.
C18_ExistingReportEndsTheRun ==
    /\ ReportFound
          => /\ pc = "exit"
             /\ exit_path = "report_exists"
             /\ run \notin stats_runs
             /\ ~WriterCalledThisRun
             /\ outcome = Unset
    /\ \A i \in DOMAIN writes : ~writes[i].existed
    /\ reports_before \subseteq reports
    /\ \A i \in DOMAIN writes :
          writes[i].end = "ok" => \A r \in stats_runs : r <= writes[i].run

\* The first run wrote the report; the second run found it and ended.
C18_Witness ==
    /\ ReportFound
    /\ run = 2
    /\ pc = "exit"
    /\ exit_path = "report_exists"
    /\ Len(writes) = 1
    /\ writes[1].run = 1
    /\ writes[1].end = "ok"
    /\ stats_runs = {1}

\* The report was in the directory before the first run.
OlderReportWitness ==
    /\ ReportFound
    /\ run = 1
    /\ pc = "exit"
    /\ writes = <<>>
    /\ stats_runs = {}

=============================================================================
